---- MODULE Spec2Model ----
(***************************************************************************)
(* A model of src/utils/utils.py: the window segmenter (separate_dps),     *)
(* the ancestor index builder (get_ancestors), the type/value separator    *)
(* (separate_types_values), the subtoken splitter (tokenize) and the       *)
(* parallel executor (parallelize, _mp_iterate_over, flatten).             *)
(*                                                                         *)
(* The functions are independent of one another, so each gets its own      *)
(* specification over its own variables; the variables of the other        *)
(* components stay at their idle values.                                   *)
(***************************************************************************)
EXTENDS Integers, Sequences, FiniteSets, TLC

VARIABLES
    \* separate_dps
    seg_pc, seg_ast, seg_max_len, half_len, seg_i, aug_asts,
    \* tokenize
    tok_pc, tok_s, tok_out,
    \* get_ancestors
    anc_pc, anc_ast, anc_i, ancestors, node2parent,
    \* separate_types_values
    sep_pc, sep_dp, sep_dp0, sep_mode, lits, sep_i, types, values,
    \* parallelize
    par_pc, par_iterable, par_bad, n_cores_arg, n_cores, chunksize, jobs, par_next,
    multiple_results, par_seq_out, par_ret, par_calls, par_finished

segVars == <<seg_pc, seg_ast, seg_max_len, half_len, seg_i, aug_asts>>
tokVars == <<tok_pc, tok_s, tok_out>>
ancVars == <<anc_pc, anc_ast, anc_i, ancestors, node2parent>>
sepVars == <<sep_pc, sep_dp, sep_dp0, sep_mode, lits, sep_i, types, values>>
parVars == <<par_pc, par_iterable, par_bad, n_cores_arg, n_cores, chunksize, jobs, par_next,
             multiple_results, par_seq_out, par_ret, par_calls, par_finished>>
vars == <<segVars, tokVars, ancVars, sepVars, parVars>>

\* what a step of one function leaves alone: the other functions' variables
SegFrame == UNCHANGED <<tokVars, ancVars, sepVars, parVars>>
TokFrame == UNCHANGED <<segVars, ancVars, sepVars, parVars>>
AncFrame == UNCHANGED <<segVars, tokVars, sepVars, parVars>>
SepFrame == UNCHANGED <<segVars, tokVars, ancVars, parVars>>
ParFrame == UNCHANGED <<segVars, tokVars, ancVars, sepVars>>

(***************************************************************************)
(* Bounds of the model.                                                    *)
(***************************************************************************)
\* longest node array handed to separate_dps
MaxAstLen == 12
\* largest max_len handed to separate_dps
MaxMaxLen == 6
\* longest identifier handed to tokenize (besides the fixed examples)
MaxIdLen == 6
\* longest node array handed to get_ancestors
MaxNodes == 3
\* longest node array handed to separate_types_values
MaxDp == 2
\* longest work list handed to parallelize
MaxItems == 4
\* largest worker count handed to parallelize
MaxCores == 3

(***************************************************************************)
(* Python helpers.                                                         *)
(***************************************************************************)
Min(a, b) == IF a < b THEN a ELSE b
Max(a, b) == IF a > b THEN a ELSE b

\* Python's normalisation of a slice bound k for a list of length n
SliceBound(k, n) == IF k < 0 THEN Max(n + k, 0) ELSE Min(k, n)

\* Python's s[a:b] (0-based, b exclusive, bounds clamped)
PySlice(s, a, b) == SubSeq(s, SliceBound(a, Len(s)) + 1, SliceBound(b, Len(s)))

\* Python's s[a:]
PySliceFrom(s, a) == SubSeq(s, SliceBound(a, Len(s)) + 1, Len(s))

\* a variable that may hold None holds <<>> for None and <<v>> for the value v
None == <<>>
Some(v) == <<v>>

(***************************************************************************)
(* separate_dps(ast, max_len)                                              *)
(*                                                                         *)
(* A node is represented by its position in the original array (ast[k] =   *)
(* k, 0-based), so a window's nodes say where in the array they came from. *)
(* A window [nodes, idx] is the pair <<nodes, idx>>.                       *)
(***************************************************************************)
\* the node array of length n
AstOfLen(n) == [k \in 1..n |-> k - 1]

\* int(max_len / 2)
HalfLen(max_len) == max_len \div 2

\* max_len - (len(ast) - (i + half_len))
LastOffsetFull(n, max_len, i, h) == max_len - (n - (i + max_len))
LastOffset(n, max_len, i, h) == max_len - (n - (i + h))

\* the model stops a loop that no longer ends after this many windows; a
\* terminating call emits at most len(ast) windows
MaxWindows == MaxAstLen + 2

SegIdle ==
    /\ seg_pc = "idle"
    /\ seg_ast = <<>>
    /\ seg_max_len = 0
    /\ half_len = 0
    /\ seg_i = 0
    /\ aug_asts = <<>>

SegInit ==
    /\ seg_pc = "call"
    /\ seg_ast \in {AstOfLen(n) : n \in 1..MaxAstLen}
    /\ seg_max_len \in 1..MaxMaxLen
    /\ half_len = 0
    /\ seg_i = 0
    /\ aug_asts = <<>>

\* lines 107-109: the array fits one window
SegShort ==
    /\ seg_pc = "call"
    /\ Len(seg_ast) <= seg_max_len
    /\ half_len' = HalfLen(seg_max_len)
    /\ aug_asts' = << <<seg_ast, 0>> >>
    /\ seg_pc' = "done"
    /\ UNCHANGED <<seg_ast, seg_max_len, seg_i>>
    /\ SegFrame

\* lines 107-112: the first window, and the loop's start position
SegFirst ==
    /\ seg_pc = "call"
    /\ ~(Len(seg_ast) <= seg_max_len)
    /\ half_len' = HalfLen(seg_max_len)
    /\ aug_asts' = << <<PySlice(seg_ast, 0, seg_max_len), 0>> >>
    /\ seg_i' = HalfLen(seg_max_len)
    /\ seg_pc' = "loop"
    /\ UNCHANGED <<seg_ast, seg_max_len>>
    /\ SegFrame

\* lines 113-115: one iteration of the while loop
SegLoop ==
    /\ seg_pc = "loop"
    /\ seg_i < Len(seg_ast) - seg_max_len
    /\ Len(aug_asts) < MaxWindows
    /\ aug_asts' = Append(aug_asts,
                          <<PySlice(seg_ast, seg_i, seg_i + seg_max_len), half_len>>)
    /\ seg_i' = seg_i + half_len
    /\ UNCHANGED <<seg_pc, seg_ast, seg_max_len, half_len>>
    /\ SegFrame

\* lines 116-118: the last, right-aligned window
SegLast ==
    /\ seg_pc = "loop"
    /\ ~(seg_i < Len(seg_ast) - seg_max_len)
    /\ aug_asts' = Append(aug_asts,
                          <<PySliceFrom(seg_ast, -seg_max_len),
                            LastOffset(Len(seg_ast), seg_max_len, seg_i, half_len)>>)
    /\ seg_pc' = "done"
    /\ UNCHANGED <<seg_ast, seg_max_len, half_len, seg_i>>
    /\ SegFrame


(***************************************************************************)
(* tokenize(s)                                                             *)
(*                                                                         *)
(* A string is a sequence of one-character strings.                        *)
(***************************************************************************)
UpperLetters == <<"A","B","C","D","E","F","G","H","I","J","K","L","M",
                  "N","O","P","Q","R","S","T","U","V","W","X","Y","Z">>
\* line 172
letters == <<"a","b","c","d","e","f","g","h","i","j","k","l","m",
             "n","o","p","q","r","s","t","u","v","w","x","y","z">>

\* the character class [A-Z]
IsUpper(c) == \E k \in 1..Len(UpperLetters) : UpperLetters[k] = c
IsLower(c) == \E k \in 1..Len(letters) : letters[k] = c

\* str.lower() on one character
LowerChar(c) ==
    IF IsUpper(c)
    THEN letters[CHOOSE k \in 1..Len(UpperLetters) : UpperLetters[k] = c]
    ELSE c

\* str.lower()
StrLower(s) == [k \in 1..Len(s) |-> LowerChar(s[k])]

\* pattern.sub("_", s) for the pattern (?<!^)(?=[A-Z]): an underscore goes in
\* front of every upper-case letter that is not the first character
RECURSIVE SubFrom(_, _)
SubFrom(s, k) ==
    IF k > Len(s) THEN <<>>
    ELSE (IF k > 1 /\ IsUpper(s[k]) THEN <<"_", s[k]>> ELSE <<s[k]>>)
         \o SubFrom(s, k + 1)
PatternSub(s) == SubFrom(s, 1)

\* str.split("_"): the pieces between the separators, empty ones included
RECURSIVE SplitFrom(_, _, _)
SplitFrom(s, k, cur) ==
    IF k > Len(s) THEN <<cur>>
    ELSE IF s[k] = "_" THEN <<cur>> \o SplitFrom(s, k + 1, <<>>)
    ELSE SplitFrom(s, k + 1, Append(cur, s[k]))
StrSplit(s) == SplitFrom(s, 1, <<>>)

\* filter(None, xs): the non-empty pieces
FilterNone(xs) == SelectSeq(xs, LAMBDA x : x # <<>>)

\* line 170: [:5]
MaxSubtokens == 5
FirstSix(xs) == PySlice(xs, 0, 6)
FirstFive(xs) == PySlice(xs, 0, MaxSubtokens)

tokenize(s) == FirstFive(FilterNone(StrSplit(StrLower(PatternSub(s)))))

TokAlphabet == {"a", "B", "D", "_"}
GetUserID == <<"g","e","t","U","s","e","r","I","D">>

RECURSIVE StringsUpTo(_)
StringsUpTo(n) ==
    IF n = 0 THEN {<<>>}
    ELSE LET shorter == StringsUpTo(n - 1)
         IN  shorter \cup {Append(s, c) : s \in {t \in shorter : Len(t) = n - 1},
                                          c \in TokAlphabet}

TokIdle ==
    /\ tok_pc = "idle"
    /\ tok_s = <<>>
    /\ tok_out = None

TokInit ==
    /\ tok_pc = "call"
    /\ tok_s \in StringsUpTo(MaxIdLen) \cup {GetUserID}
    /\ tok_out = None

\* lines 167-170
TokCall ==
    /\ tok_pc = "call"
    /\ tok_out' = tokenize(tok_s)
    /\ tok_pc' = "done"
    /\ UNCHANGED tok_s
    /\ TokFrame


(***************************************************************************)
(* get_ancestors(ast)                                                      *)
(*                                                                         *)
(* A node is a record that has a "children" field or not, as the dict of   *)
(* the source has the key or not.  The loop over a node's children only    *)
(* assigns the same parent to each of them, so the order and the           *)
(* multiplicity of the children do not matter and "children" is a set of   *)
(* (0-based) node indices.  A dict is a function on its keys.              *)
(***************************************************************************)
LeafNode == [type |-> "leaf"]
InternalNode(cs) == [type |-> "internal", children |-> cs]

\* "children" in node
HasChildren(node) == "children" \in DOMAIN node

\* the children node i (0-based) lists
ChildrenOf(ast, i) == IF HasChildren(ast[i + 1]) THEN ast[i + 1].children ELSE {}

\* lines 155-157: node2parent[child] = i for every child
RegisterChildren(n2p, cs, i) ==
    [k \in DOMAIN n2p \cup cs |-> IF k \in cs THEN i ELSE n2p[k]]

\* line 158: [i] + ancestors[node2parent[i]]
AncChainNoSelf(i, parentChain) == parentChain
AncChain(i, parentChain) == <<i>> \o parentChain

\* line 158 raises KeyError: node2parent has no i, or ancestors has no
\* node2parent[i]
LookupFails(n2p, anc, i) ==
    IF i \notin DOMAIN n2p THEN TRUE ELSE n2p[i] \notin DOMAIN anc

AncNodeShapes(n) == {LeafNode} \cup {InternalNode(cs) : cs \in SUBSET (0..(n - 1))}

AncIdle ==
    /\ anc_pc = "idle"
    /\ anc_ast = <<>>
    /\ anc_i = 0
    /\ ancestors = <<>>
    /\ node2parent = <<>>

\* lines 152-153
AncInit ==
    /\ anc_pc = "loop"
    /\ anc_ast \in UNION {[1..n -> AncNodeShapes(n)] : n \in 1..MaxNodes}
    /\ anc_i = 0
    /\ ancestors = (0 :> <<>>)
    /\ node2parent = (0 :> 0)

\* lines 154-158: one iteration of the loop, for node anc_i
AncStep ==
    /\ anc_pc = "loop"
    /\ anc_i < Len(anc_ast)
    /\ LET n2p == RegisterChildren(node2parent, ChildrenOf(anc_ast, anc_i), anc_i)
       IN  /\ ~LookupFails(n2p, ancestors, anc_i)
           /\ node2parent' = n2p
           /\ ancestors' = [k \in DOMAIN ancestors \cup {anc_i} |->
                               IF k = anc_i
                               THEN AncChain(anc_i, ancestors[n2p[anc_i]])
                               ELSE ancestors[k]]
    /\ anc_i' = anc_i + 1
    /\ UNCHANGED <<anc_pc, anc_ast>>
    /\ AncFrame

\* a variant that swallows the lookup failure and gives the node a chain of
\* its own
AncKeyErrorSwallowed ==
    /\ anc_pc = "loop"
    /\ anc_i < Len(anc_ast)
    /\ LET n2p == RegisterChildren(node2parent, ChildrenOf(anc_ast, anc_i), anc_i)
       IN  /\ LookupFails(n2p, ancestors, anc_i)
           /\ node2parent' = n2p
           /\ ancestors' = [k \in DOMAIN ancestors \cup {anc_i} |->
                               IF k = anc_i THEN <<anc_i>> ELSE ancestors[k]]
    /\ anc_i' = anc_i + 1
    /\ UNCHANGED <<anc_pc, anc_ast>>
    /\ AncFrame

\* lines 154-158: the iteration for node anc_i raises KeyError, which leaves
\* get_ancestors (the children are registered before the lookup)
AncKeyError ==
    /\ anc_pc = "loop"
    /\ anc_i < Len(anc_ast)
    /\ LET n2p == RegisterChildren(node2parent, ChildrenOf(anc_ast, anc_i), anc_i)
       IN  /\ LookupFails(n2p, ancestors, anc_i)
           /\ node2parent' = n2p
    /\ anc_pc' = "error"
    /\ UNCHANGED <<anc_ast, anc_i, ancestors>>
    /\ AncFrame

\* line 159
AncReturn ==
    /\ anc_pc = "loop"
    /\ anc_i = Len(anc_ast)
    /\ anc_pc' = "done"
    /\ UNCHANGED <<anc_ast, anc_i, ancestors, node2parent>>
    /\ AncFrame


(***************************************************************************)
(* separate_types_values(dp, mode)                                         *)
(*                                                                         *)
(* A node is a function on the keys its dict has ("type", and "value" or   *)
(* "children"); {} is the function on no key.  lits is the literal         *)
(* vocabulary read from literals.json: [str |-> ..., num |-> ...].         *)
(***************************************************************************)
\* constants.EMPTY (the constants module is not part of the sources)
EMPTY == "<empty>"

EmptyDict == <<>>

\* d[k] = v
DictSet(d, k, v) == [x \in DOMAIN d \cup {k} |-> IF x = k THEN v ELSE d[x]]

\* lines 128-132: what src["value"] holds after the substitution
SubstValue(src, vocab) ==
    IF src["type"] = "Str"
    THEN (IF src["value"] \notin vocab.str THEN "<STR_LIT>" ELSE src["value"])
    ELSE IF src["type"] = "Num"
    THEN (IF src["value"] \notin vocab.num THEN "<NUM_LIT>" ELSE src["value"])
    ELSE src["value"]

\* copy_if_key, lines 127-132: the node src after the call
SrcAfterCopy(src, key, vocab) ==
    IF key \in DOMAIN src /\ key = "value"
    THEN [src EXCEPT !["value"] = SubstValue(src, vocab)]
    ELSE src

\* copy_if_key, lines 127-135: the dict tgt after the call
TgtAfterCopy(tgt, src, key, default, vocab) ==
    IF key \in DOMAIN src
    THEN DictSet(tgt, key, SrcAfterCopy(src, key, vocab)[key])
    ELSE IF default # None
    THEN DictSet(tgt, key, default[1])
    ELSE tgt

\* lines 139-141: the values record of a node
ValOf(node, vocab) ==
    TgtAfterCopy(TgtAfterCopy(EmptyDict, node, "children", None, vocab),
                 node, "value", Some(EMPTY), vocab)

\* lines 144-146: the types record of a node (after the value was substituted)
TypOf(node, vocab) ==
    TgtAfterCopy(TgtAfterCopy(EmptyDict, node, "children", None, vocab),
                 node, "type", None, vocab)

SepNodeShapes ==
    { [type |-> "Str", value |-> "hello"],
      [type |-> "Str", value |-> "rare"],
      [type |-> "Num", value |-> "0"],
      [type |-> "Num", value |-> "42"],
      [type |-> "NameLoad", value |-> "x"],
      [type |-> "Module", children |-> <<1>>] }

SepVocabularies == [str : SUBSET {"hello"}, num : SUBSET {"0"}]

SepIdle ==
    /\ sep_pc = "idle"
    /\ sep_dp = <<>>
    /\ sep_dp0 = <<>>
    /\ sep_mode = "idle"
    /\ lits = [str |-> {}, num |-> {}]
    /\ sep_i = 0
    /\ types = <<>>
    /\ values = <<>>

\* lines 125, 136-137; sep_dp0 remembers the input as it was handed over
SepInit ==
    /\ sep_pc = "loop"
    /\ sep_dp \in UNION {[1..n -> SepNodeShapes] : n \in 0..MaxDp}
    /\ sep_dp0 = sep_dp
    /\ sep_mode \in {"all", "values"}
    /\ lits \in SepVocabularies
    /\ sep_i = 0
    /\ types = <<>>
    /\ values = <<>>

\* lines 138-147: one iteration of the loop, for node sep_i
SepStep ==
    /\ sep_pc = "loop"
    /\ sep_i < Len(sep_dp)
    /\ LET node == sep_dp[sep_i + 1]
           after == SrcAfterCopy(node, "value", lits)
       IN  /\ values' = Append(values, ValOf(node, lits))
           /\ sep_dp' = [sep_dp EXCEPT ![sep_i + 1] = after]
           /\ types' = IF sep_mode = "all"
                       THEN Append(types, TypOf(after, lits))
                       ELSE types
    /\ sep_i' = sep_i + 1
    /\ UNCHANGED <<sep_pc, sep_dp0, sep_mode, lits>>
    /\ SepFrame

\* line 148
SepReturn ==
    /\ sep_pc = "loop"
    /\ sep_i = Len(sep_dp)
    /\ sep_pc' = "done"
    /\ UNCHANGED <<sep_dp, sep_dp0, sep_mode, lits, sep_i, types, values>>
    /\ SepFrame


(***************************************************************************)
(* parallelize(iterable, f, f_args, worker_init, n_cores)                  *)
(*                                                                         *)
(* The transform f is the caller's: here it doubles its argument, and      *)
(* raises on the items of par_bad.  n_cores_arg is the argument (None: not  *)
(* given) and n_cores the worker count of lines 50-51.  A job is what      *)
(* pool.apply_async returned for one chunk: the chunk, the 0-based index   *)
(* of its first item in the list, how many items its worker has            *)
(* transformed, their results, and its state (queued, running, done,       *)
(* failed).  par_calls counts the applications of f to each item and       *)
(* par_finished is the order in which the jobs ended.                      *)
(***************************************************************************)
ParItems == {1, 2}

\* f(x, *f_args)
F(x) == 2 * x
Raises(x) == x \in par_bad

\* math.ceil(len(lst) / n_cores)
ChunkSizeFloor(len, n) == len \div n
ChunkSize(len, n) == (len + n - 1) \div n

\* line 57: lst[i * chunksize : (i + 1) * chunksize]
ChunkOf(lst, i, size) == PySlice(lst, i * size, (i + 1) * size)

\* line 71
RECURSIVE flatten(_)
flatten(list_of_lists) ==
    IF list_of_lists = <<>> THEN <<>>
    ELSE Head(list_of_lists) \o flatten(Tail(list_of_lists))

NewJob(lst, i, size) ==
    [chunk |-> ChunkOf(lst, i, size), first |-> SliceBound(i * size, Len(lst)),
     pos |-> 0, out |-> <<>>, state |-> "queued"]

\* the worker processes of the pool are alive from line 54 to the end of the
\* with block
PoolAlive == par_pc \in {"submit", "collect"}

CountCall(k) == [par_calls EXCEPT ![k] = @ + 1]

ParIdle ==
    /\ par_pc = "idle"
    /\ par_iterable = <<>>
    /\ par_bad = {}
    /\ n_cores_arg = None
    /\ n_cores = 0
    /\ chunksize = 0
    /\ jobs = <<>>
    /\ par_next = 0
    /\ multiple_results = <<>>
    /\ par_seq_out = <<>>
    /\ par_ret = None
    /\ par_calls = <<>>
    /\ par_finished = <<>>

ParInit ==
    /\ par_pc = "call"
    /\ par_iterable \in UNION {[1..n -> ParItems] : n \in 0..MaxItems}
    /\ par_bad \in SUBSET ParItems
    /\ n_cores_arg \in {None} \cup {Some(n) : n \in 1..MaxCores}
    /\ n_cores = 0
    /\ chunksize = 0
    /\ jobs = <<>>
    /\ par_next = 0
    /\ multiple_results = <<>>
    /\ par_seq_out = <<>>
    /\ par_ret = None
    /\ par_calls = [k \in 1..Len(par_iterable) |-> 0]
    /\ par_finished = <<>>

\* lines 48-49: one core, the list is transformed in the caller's process
ParCallSeq ==
    /\ par_pc = "call"
    /\ n_cores_arg = Some(1)
    /\ par_pc' = "seq"
    /\ UNCHANGED <<par_iterable, par_bad, n_cores_arg, n_cores, chunksize, jobs, par_next,
                   multiple_results, par_seq_out, par_ret, par_calls, par_finished>>
    /\ ParFrame

\* lines 50-54: the number of cores, the chunk size, the pool
ParCallPool ==
    /\ par_pc = "call"
    /\ n_cores_arg # Some(1)
    /\ \E cpu_count \in 1..MaxCores :
          LET n == IF n_cores_arg = None THEN cpu_count ELSE n_cores_arg[1]
          IN  /\ n_cores' = n
              /\ chunksize' = ChunkSize(Len(par_iterable), n)
    /\ par_pc' = "submit"
    /\ UNCHANGED <<par_iterable, par_bad, n_cores_arg, jobs, par_next,
                   multiple_results, par_seq_out, par_ret, par_calls, par_finished>>
    /\ ParFrame

\* line 67, called from line 49: f on the next item
ParSeqItem ==
    /\ par_pc = "seq"
    /\ Len(par_seq_out) < Len(par_iterable)
    /\ LET k == Len(par_seq_out) + 1
       IN  /\ ~Raises(par_iterable[k])
           /\ par_seq_out' = Append(par_seq_out, F(par_iterable[k]))
           /\ par_calls' = CountCall(k)
    /\ UNCHANGED <<par_pc, par_iterable, par_bad, n_cores_arg, n_cores, chunksize, jobs,
                   par_next, multiple_results, par_ret, par_finished>>
    /\ ParFrame

\* line 67, called from line 49: f raises, and so does parallelize
ParSeqRaise ==
    /\ par_pc = "seq"
    /\ Len(par_seq_out) < Len(par_iterable)
    /\ LET k == Len(par_seq_out) + 1
       IN  /\ Raises(par_iterable[k])
           /\ par_calls' = CountCall(k)
    /\ par_pc' = "raised"
    /\ UNCHANGED <<par_iterable, par_bad, n_cores_arg, n_cores, chunksize, jobs, par_next,
                   multiple_results, par_seq_out, par_ret, par_finished>>
    /\ ParFrame

\* line 49: the list comprehension is returned
ParSeqReturn ==
    /\ par_pc = "seq"
    /\ Len(par_seq_out) = Len(par_iterable)
    /\ par_ret' = Some(par_seq_out)
    /\ par_pc' = "returned"
    /\ UNCHANGED <<par_iterable, par_bad, n_cores_arg, n_cores, chunksize, jobs, par_next,
                   multiple_results, par_seq_out, par_calls, par_finished>>
    /\ ParFrame

\* lines 55-60: apply_async for the next chunk; after the last one the
\* caller goes on to collect
ParSubmit ==
    /\ par_pc = "submit"
    /\ Len(jobs) < n_cores
    /\ jobs' = Append(jobs, NewJob(par_iterable, Len(jobs), chunksize))
    /\ par_pc' = IF Len(jobs) + 1 = n_cores THEN "collect" ELSE "submit"
    /\ par_next' = 1
    /\ UNCHANGED <<par_iterable, par_bad, n_cores_arg, n_cores, chunksize, multiple_results,
                   par_seq_out, par_ret, par_calls, par_finished>>
    /\ ParFrame

\* a worker of the pool takes the oldest queued job; a job with an empty
\* chunk is done at once (line 67 over no item)
JobStart(j) ==
    /\ PoolAlive
    /\ j \in 1..Len(jobs)
    /\ jobs[j].state = "queued"
    /\ \A h \in 1..(j - 1) : jobs[h].state # "queued"
    /\ Cardinality({h \in 1..Len(jobs) : jobs[h].state = "running"}) < n_cores
    /\ IF jobs[j].chunk = <<>>
       THEN /\ jobs' = [jobs EXCEPT ![j].state = "done"]
            /\ par_finished' = Append(par_finished, j)
       ELSE /\ jobs' = [jobs EXCEPT ![j].state = "running"]
            /\ UNCHANGED par_finished
    /\ UNCHANGED <<par_pc, par_iterable, par_bad, n_cores_arg, n_cores, chunksize, par_next,
                   multiple_results, par_seq_out, par_ret, par_calls>>
    /\ ParFrame

\* line 67 in a worker: f on the next item of the chunk; after the last item
\* the job's result is ready
JobItem(j) ==
    /\ PoolAlive
    /\ j \in 1..Len(jobs)
    /\ jobs[j].state = "running"
    /\ LET job == jobs[j]
           x == job.chunk[job.pos + 1]
           last == job.pos + 1 = Len(job.chunk)
       IN  /\ ~Raises(x)
           /\ jobs' = [jobs EXCEPT ![j] =
                         [job EXCEPT !.pos = @ + 1, !.out = Append(@, F(x)),
                                     !.state = IF last THEN "done" ELSE "running"]]
           /\ par_calls' = CountCall(job.first + job.pos + 1)
           /\ par_finished' = IF last THEN Append(par_finished, j) ELSE par_finished
    /\ UNCHANGED <<par_pc, par_iterable, par_bad, n_cores_arg, n_cores, chunksize, par_next,
                   multiple_results, par_seq_out, par_ret>>
    /\ ParFrame

\* a variant in which the worker dies on the exception and reports nothing
JobRaiseLost(j) ==
    /\ PoolAlive
    /\ j \in 1..Len(jobs)
    /\ jobs[j].state = "running"
    /\ LET job == jobs[j]
       IN  /\ Raises(job.chunk[job.pos + 1])
           /\ jobs' = [jobs EXCEPT ![j].state = "lost"]
           /\ par_calls' = CountCall(job.first + job.pos + 1)
    /\ UNCHANGED <<par_pc, par_iterable, par_bad, n_cores_arg, n_cores, chunksize, par_next,
                   multiple_results, par_seq_out, par_ret, par_finished>>
    /\ ParFrame

\* line 67 in a worker: f raises; the exception is the job's outcome
JobRaise(j) ==
    /\ PoolAlive
    /\ j \in 1..Len(jobs)
    /\ jobs[j].state = "running"
    /\ LET job == jobs[j]
       IN  /\ Raises(job.chunk[job.pos + 1])
           /\ jobs' = [jobs EXCEPT ![j].state = "failed"]
           /\ par_calls' = CountCall(job.first + job.pos + 1)
    /\ par_finished' = Append(par_finished, j)
    /\ UNCHANGED <<par_pc, par_iterable, par_bad, n_cores_arg, n_cores, chunksize, par_next,
                   multiple_results, par_seq_out, par_ret>>
    /\ ParFrame

\* line 61: job.get() of the next job, which succeeded
ParGetDone ==
    /\ par_pc = "collect"
    /\ par_next <= Len(jobs)
    /\ jobs[par_next].state = "done"
    /\ multiple_results' = Append(multiple_results, jobs[par_next].out)
    /\ par_next' = par_next + 1
    /\ UNCHANGED <<par_pc, par_iterable, par_bad, n_cores_arg, n_cores, chunksize, jobs,
                   par_seq_out, par_ret, par_calls, par_finished>>
    /\ ParFrame

\* a variant that leaves a failed job's results out and goes on
ParGetFailedSkipped ==
    /\ par_pc = "collect"
    /\ par_next <= Len(jobs)
    /\ jobs[par_next].state = "failed"
    /\ multiple_results' = Append(multiple_results, jobs[par_next].out)
    /\ par_next' = par_next + 1
    /\ UNCHANGED <<par_pc, par_iterable, par_bad, n_cores_arg, n_cores, chunksize, jobs,
                   par_seq_out, par_ret, par_calls, par_finished>>
    /\ ParFrame

\* line 61: job.get() of the next job re-raises its exception; leaving the
\* with block terminates the pool
ParGetFailed ==
    /\ par_pc = "collect"
    /\ par_next <= Len(jobs)
    /\ jobs[par_next].state = "failed"
    /\ par_pc' = "raised"
    /\ UNCHANGED <<par_iterable, par_bad, n_cores_arg, n_cores, chunksize, jobs, par_next,
                   multiple_results, par_seq_out, par_ret, par_calls, par_finished>>
    /\ ParFrame

\* lines 62-63
ParFlatten ==
    /\ par_pc = "collect"
    /\ par_next > Len(jobs)
    /\ par_ret' = Some(flatten(multiple_results))
    /\ par_pc' = "returned"
    /\ UNCHANGED <<par_iterable, par_bad, n_cores_arg, n_cores, chunksize, jobs, par_next,
                   multiple_results, par_seq_out, par_calls, par_finished>>
    /\ ParFrame

\* the steps of the process that called parallelize
CallerStep ==
    \/ ParCallSeq
    \/ ParCallPool
    \/ ParSeqItem
    \/ ParSeqRaise
    \/ ParSeqReturn
    \/ ParSubmit
    \/ ParGetDone
    \/ ParGetFailed
    \/ ParFlatten

\* the steps of the worker that runs job j
JobStep(j) == JobStart(j) \/ JobItem(j) \/ JobRaise(j)


(***************************************************************************)
(* The specifications, one per function.                                   *)
(***************************************************************************)
InitSegmenter == SegInit /\ TokIdle /\ AncIdle /\ SepIdle /\ ParIdle
NextSegmenter == SegShort \/ SegFirst \/ SegLoop \/ SegLast
SpecSegmenter == InitSegmenter /\ [][NextSegmenter]_vars

InitTokenize == TokInit /\ SegIdle /\ AncIdle /\ SepIdle /\ ParIdle
NextTokenize == TokCall
SpecTokenize == InitTokenize /\ [][NextTokenize]_vars

InitAncestors == AncInit /\ SegIdle /\ TokIdle /\ SepIdle /\ ParIdle
NextAncestors == AncStep \/ AncKeyError \/ AncReturn
SpecAncestors == InitAncestors /\ [][NextAncestors]_vars

InitSeparator == SepInit /\ SegIdle /\ TokIdle /\ AncIdle /\ ParIdle
NextSeparator == SepStep \/ SepReturn
SpecSeparator == InitSeparator /\ [][NextSeparator]_vars

InitParallel == ParInit /\ SegIdle /\ TokIdle /\ AncIdle /\ SepIdle
NextParallel ==
    \/ ParCallSeq
    \/ ParCallPool
    \/ ParSeqItem
    \/ ParSeqRaise
    \/ ParSeqReturn
    \/ ParSubmit
    \/ ParGetDone
    \/ ParGetFailed
    \/ ParFlatten
    \/ \E j \in 1..MaxCores : JobStart(j)
    \/ \E j \in 1..MaxCores : JobItem(j)
    \/ \E j \in 1..MaxCores : JobRaise(j)
SpecParallel == InitParallel /\ [][NextParallel]_vars

\* the caller and the workers are processes of the operating system, each
\* scheduled as long as it can take a step
FairSpecParallel ==
    /\ SpecParallel
    /\ WF_vars(CallerStep)
    /\ \A j \in 1..MaxCores :
          WF_vars(JobStep(j))

(***************************************************************************)
(* Properties of separate_dps, checked under SpecSegmenter.                *)
(***************************************************************************)
\* the original positions a window counts as new: those of its nodes from
\* its offset on
NewPositions(w) == {w[1][q + 1] : q \in {r \in 0..(Len(w[1]) - 1) : r >= w[2]}}

\* in how many windows position p is new
TimesCounted(p) ==
    Cardinality({j \in 1..Len(aug_asts) : p \in NewPositions(aug_asts[j])})

SegReturnedLong == seg_pc = "done" /\ Len(seg_ast) > seg_max_len

\* C1: when len(ast) > max_len, every original index is new in exactly one
\* of the returned windows (no gap, no index counted twice), for odd max_len
\* as for even.
C1_CoveredExactlyOnce ==
    SegReturnedLong => \A p \in 0..(Len(seg_ast) - 1) : TimesCounted(p) = 1

\* C6: the window-emitting loop advances its start position on every
\* iteration (so that separate_dps terminates), for max_len = 1 too.
C6_LoopAdvances ==
    [][(seg_pc = "loop" /\ seg_pc' = "loop") => seg_i' > seg_i]_vars

KthOf(S, k) == CHOOSE p \in S : Cardinality({q \in S : q < p}) = k - 1

\* the lower-cased piece of s from position p up to the position before the
\* next member of stops (or the end of s)
PieceFrom(s, p, stops) ==
    LET q == CHOOSE e \in p..Len(s) :
                 /\ \A r \in (p + 1)..e : r \notin stops
                 /\ e = Len(s) \/ (e + 1) \in stops
    IN  StrLower(SubSeq(s, p, q))

\* where tokenize starts a fragment: at a character other than "_" that is
\* the first, or upper-case, or follows a "_"
CodeStarts(s) ==
    {p \in 1..Len(s) : /\ s[p] # "_"
                       /\ (p = 1 \/ IsUpper(s[p]) \/ s[p - 1] = "_")}

\* where a fragment ends: before an upper-case letter or a "_"
CodeStops(s) == {p \in 1..Len(s) : s[p] = "_" \/ IsUpper(s[p])}

\* where the claim starts a fragment: at the first character and at an
\* upper-case letter that follows a lower-case one
ClaimedStarts(s) ==
    {p \in 1..Len(s) : p = 1 \/ (IsLower(s[p - 1]) /\ IsUpper(s[p]))}

NoUnderscore(s) == \A p \in 1..Len(s) : s[p] # "_"

\* C7 as amended: tokenize splits before every upper-case letter other than
\* the first character and at every underscore, lower-cases the fragments,
\* drops the empty ones and returns at most the first 5; a run of upper-case
\* letters gives one fragment per letter, tokenize("getUserID") =
\* ["get", "user", "i", "d"].
C7_SplitsBeforeEveryUpper ==
    tok_pc = "done" =>
        /\ Len(tok_out) = Min(MaxSubtokens, Cardinality(CodeStarts(tok_s)))
        /\ \A k \in 1..Len(tok_out) :
              tok_out[k] = PieceFrom(tok_s, KthOf(CodeStarts(tok_s), k), CodeStops(tok_s))
        /\ tok_s = GetUserID =>
              tok_out = << <<"g","e","t">>, <<"u","s","e","r">>, <<"i">>, <<"d">> >>

\* tokenize("getUserID") was computed
C7_Witness == tok_pc = "done" /\ tok_s = GetUserID /\ Len(tok_out) = 4

\* C7 as stated: tokenize splits only at lower-to-upper-case transitions, so
\* a run of upper-case letters stays in one fragment and
\* tokenize("getUserID") = ["get", "user", "id"] (identifiers without
\* underscores).
C7_SplitsOnlyAtLowerUpper ==
    (tok_pc = "done" /\ NoUnderscore(tok_s)) =>
        /\ Len(tok_out) = Min(MaxSubtokens, Cardinality(ClaimedStarts(tok_s)))
        /\ \A k \in 1..Len(tok_out) :
              tok_out[k] = PieceFrom(tok_s, KthOf(ClaimedStarts(tok_s), k),
                                     ClaimedStarts(tok_s))
        /\ tok_s = GetUserID =>
              tok_out = << <<"g","e","t">>, <<"u","s","e","r">>, <<"i","d">> >>

(***************************************************************************)
(* Properties of get_ancestors, checked under SpecAncestors.               *)
(***************************************************************************)
NodeIndices(ast) == 0..(Len(ast) - 1)

\* the nodes that list i as a child
ListedBy(ast, i) == {j \in NodeIndices(ast) : i \in ChildrenOf(ast, j)}

\* a rooted tree in which every node's parent has a smaller index: the root
\* is nobody's child, every other node is the child of exactly one node, and
\* that node comes first
ValidTree(ast) ==
    /\ ListedBy(ast, 0) = {}
    /\ \A i \in NodeIndices(ast) \ {0} :
          /\ Cardinality(ListedBy(ast, i)) = 1
          /\ \A j \in ListedBy(ast, i) : j < i

ParentIn(ast, i) == CHOOSE j \in NodeIndices(ast) : i \in ChildrenOf(ast, j)

RECURSIVE Depth(_, _)
Depth(ast, i) == IF i = 0 THEN 0 ELSE 1 + Depth(ast, ParentIn(ast, i))

\* C4: on a valid tree get_ancestors returns a map with an entry for every
\* index; every entry starts with the node's own index, ends with 0 and has
\* length depth + 1.
C4_ChainsToRoot ==
    ValidTree(anc_ast) =>
        /\ anc_pc # "error"
        /\ anc_pc = "done" =>
              /\ DOMAIN ancestors = NodeIndices(anc_ast)
              /\ \A i \in NodeIndices(anc_ast) :
                    /\ Len(ancestors[i]) = Depth(anc_ast, i) + 1
                    /\ ancestors[i][1] = i
                    /\ ancestors[i][Len(ancestors[i])] = 0

\* the map of a three-node chain was returned
C4_Witness ==
    /\ anc_pc = "done"
    /\ ValidTree(anc_ast)
    /\ Len(anc_ast) = 3
    /\ ancestors[2] = <<2, 1, 0>>

\* the invariant of the claim is violated: a non-root node is listed as a
\* child by no earlier node, or a node is listed as a child by a node that
\* does not come before it
Malformed(ast) ==
    \/ \E i \in NodeIndices(ast) \ {0} : ~\E j \in ListedBy(ast, i) : j < i
    \/ \E i \in NodeIndices(ast) : \E j \in ListedBy(ast, i) : j >= i

\* the violations the lookups of line 158 run into: a non-root node that no
\* earlier node lists as a child, or that lists itself
LookupDoomed(ast) ==
    \E i \in NodeIndices(ast) \ {0} :
        \/ ~\E j \in ListedBy(ast, i) : j < i
        \/ i \in ChildrenOf(ast, i)

\* C9 as stated: on every malformed node array get_ancestors fails and
\* returns no map.
C9_MalformedAlwaysFails == Malformed(anc_ast) => anc_pc # "done"

\* C9 as amended: get_ancestors fails with the lookup error, returning no
\* map, exactly when some non-root node is listed as a child by no earlier
\* node or lists itself as a child; every other node array gets a map.
C9_FailsOnOrphanOrSelfListed ==
    /\ LookupDoomed(anc_ast) => anc_pc # "done"
    /\ ~LookupDoomed(anc_ast) => anc_pc # "error"

\* the lookup failed on a node that lists itself though an earlier node
\* lists it too
C9_Witness ==
    /\ anc_pc = "error"
    /\ LookupDoomed(anc_ast)
    /\ \E i \in NodeIndices(anc_ast) \ {0} :
          i \in ChildrenOf(anc_ast, i) /\ \E j \in ListedBy(anc_ast, i) : j < i

(***************************************************************************)
(* Properties of separate_types_values, checked under SpecSeparator.       *)
(***************************************************************************)
\* C5: separate_types_values never mutates its input: every input node has
\* the keys and values it had before the call.
C5_InputUnchanged == sep_dp = sep_dp0

(***************************************************************************)
(* Properties of parallelize, checked under SpecParallel and, for          *)
(* termination, under FairSpecParallel.                                    *)
(***************************************************************************)
\* C2: a call that returns returns the list of f of each item, in the order
\* of the input, and f was applied to each item exactly once.
C2_ResultsInInputOrder ==
    par_pc = "returned" =>
        /\ par_ret = Some([k \in 1..Len(par_iterable) |-> F(par_iterable[k])])
        /\ \A k \in 1..Len(par_iterable) : par_calls[k] = 1

\* three items over several workers, and the job of the second chunk ended
\* before that of the first
C2_Witness ==
    /\ par_pc = "returned"
    /\ n_cores >= 2
    /\ Len(par_iterable) = 3
    /\ par_finished[1] = 2
    /\ jobs[1].chunk # <<>>

\* C3: if f raises on any item, the call does not return a result list (it
\* returns nothing, partial or not), and no item is handed to f twice and no
\* chunk is submitted twice.
C3_AllOrNothing ==
    /\ par_pc = "returned" => \A k \in 1..Len(par_iterable) : ~Raises(par_iterable[k])
    /\ par_ret # None => par_pc = "returned"
    /\ \A k \in 1..Len(par_iterable) : par_calls[k] <= 1
    /\ Len(jobs) <= n_cores
    /\ \A j \in 1..Len(jobs) : jobs[j].first = SliceBound((j - 1) * chunksize,
                                                          Len(par_iterable))

\* the call raised although another chunk's job had succeeded with results
C3_Witness ==
    /\ par_pc = "raised"
    /\ par_ret = None
    /\ \E j \in 1..Len(jobs) : jobs[j].state = "done" /\ jobs[j].out # <<>>

\* C10: under fair scheduling of the caller and the workers the call
\* eventually returns or raises, and the caller is never blocked before the
\* point where it collects the jobs' results.
C10_EventuallyReturnsOrRaises ==
    /\ <>(par_pc \in {"returned", "raised"})
    /\ [](par_pc \in {"call", "seq", "submit"} => ENABLED CallerStep)

\* the caller had collected a result before it met the failed job
C10_Witness ==
    /\ par_pc = "raised"
    /\ par_next = 2
    /\ n_cores = 3

====
